---------------------------- MODULE Spec2Model ----------------------------
(***************************************************************************)
(* Model of the availability resolver and listing cache of HLS2CMR         *)
(* (src/HLS/HLS2.py): HLS_CMR_query, HLS2CMR.search, HLS2CMR.dates_listed  *)
(* and HLS2CMR.listing.                                                    *)
(*                                                                         *)
(* Representation.                                                         *)
(*  - A date is a day number.  The code keeps dates as "%Y-%m-%d" strings  *)
(*    and as datetime.date values; both are ordered as the day numbers are *)
(*    and timedelta(days = n) is integer addition.                         *)
(*  - A granule of the remote catalog is [ID, begin]: its native id, the   *)
(*    tuple of its dot-separated fields <<"HLS", sensor, <<"T", tile>>, t>>*)
(*    and its BeginningDateTime <<day, hour>>.                             *)
(*  - A pandas DataFrame is the sequence of its rows, a row a record.      *)
(*  - A sensor slot of a listing row holds a python value of one of three  *)
(*    runtime types: float nan (NaN), the str "missing" (MISSING) or a     *)
(*    DataGranule (Granule(g)).                                            *)
(***************************************************************************)
EXTENDS Integers, Sequences, FiniteSets, TLC

VARIABLES
    catalog,    \* the granules the remote CMR catalog holds (environment)
    today,      \* datetime.utcnow().date() (environment)
    retries,    \* self.retries
    _listing,   \* self._listing
    _granules,  \* self._granules
    result,     \* outcome of the last call of search / listing
    gaveup,     \* history: the (tile, date, sensor) a listing call returned "missing" for
    ncalls,     \* number of calls made so far
    threads     \* the calls of listing that threads of a client are running

vars == <<catalog, today, retries, _listing, _granules, result, gaveup, ncalls,
          threads>>

-----------------------------------------------------------------------------
(* Program constants *)

SENTINEL_REPEAT_DAYS == 5
LANDSAT_REPEAT_DAYS == 16
GIVEUP_DAYS == 10
DEFAULT_RETRIES == 3

(* Bounds of the model *)

\* the calendar of the model runs over the days 1 .. MaxDay; the clock starts
\* on MaxDay and advances to the day after it
MaxDay == 21
\* at most MaxCalls calls of listing are made in a behaviour of Spec
MaxCalls == 3
\* at most MaxRetryCalls calls of search / listing in a behaviour of SpecRetry
MaxRetryCalls == 2
\* the calls of a behaviour of SpecAccess
MaxAccessCalls == 2
\* the calls of a behaviour of SpecSeries
MaxSeriesCalls == 2
\* the calls of a behaviour of SpecProduct
MaxProductCalls == 2

-----------------------------------------------------------------------------
(* Python values *)

NaN == <<>>
MISSING == <<"missing">>
Granule(g) == <<"granule", g>>

\* pd.isna(x) of a slot value
isna(x) == x = NaN

\* tile[:5]: the tiles of the model are five-character MGRS codes
Tiles == {"11SPS", "11SQS"}

-----------------------------------------------------------------------------
(* The remote catalog *)

NativeID(sensor, tile, t) == <<"HLS", sensor, <<"T", tile>>, t>>

\* a granule beginning at hour h of day d
Acquired(sensor, tile, d, h) ==
    [ID |-> NativeID(sensor, tile, <<d, h>>), begin |-> <<d, h>>]

\* The catalogs of the model.  SentinelOnly: Sentinel observed on day 1 alone.
\* TwoSensors adds a second Sentinel granule of day 1 (two granules of one
\* sensor, tile and date) and Landsat on days 1 and 5.  Published adds Sentinel
\* on day 11 and a Sentinel granule of the second tile.
SentinelOnly == { Acquired("S30", "11SPS", 1, 10) }
TwoSensors ==
    SentinelOnly \cup
    { Acquired("S30", "11SPS", 1, 11),
      Acquired("L30", "11SPS", 1, 9), Acquired("L30", "11SPS", 5, 9) }
Published ==
    TwoSensors \cup
    { Acquired("S30", "11SPS", 11, 10), Acquired("S30", "11SQS", 1, 10) }

\* BeginningDateTime a <= BeginningDateTime b
NotAfter(a, b) == a[1] < b[1] \/ (a[1] = b[1] /\ a[2] <= b[2])

\* granule_id(granule)
granule_id(g) == g.ID

\* sorted(granules, key = BeginningDateTime) of a set of granules
RECURSIVE SortedByBegin(_)
SortedByBegin(S) ==
    IF S = {} THEN <<>>
    ELSE LET first == CHOOSE g \in S : \A h \in S : NotAfter(g.begin, h.begin)
         IN  <<first>> \o SortedByBegin(S \ {first})

\* the row HLS_CMR_query builds of a granule
GranuleRow(g) ==
    [ID       |-> granule_id(g),
     sensor   |-> granule_id(g)[2],
     tile     |-> granule_id(g)[3][2],
     date_UTC |-> g.begin[1],
     granule  |-> g]

\* HLS_CMR_query(tile, start_date, end_date) when the catalog answers: the
\* granules of the tile that begin in [start_date 00:00:00, end_date 23:59:59],
\* ascending by BeginningDateTime
HLS_CMR_query(cat, tile, start_date, end_date) ==
    LET hits == { g \in cat :
                    /\ granule_id(g)[3][2] = tile
                    /\ g.begin[1] >= start_date
                    /\ g.begin[1] <= end_date }
        sorted == SortedByBegin(hits)
    IN  [i \in 1..Len(sorted) |-> GranuleRow(sorted[i])]

-----------------------------------------------------------------------------
(* HLS2CMR.search *)

\* the rows of a frame at the positions that satisfy a test, in order
AtPositions(rows, Keep(_)) ==
    LET positions == SelectSeq([i \in 1..Len(rows) |-> i], Keep)
    IN  [k \in 1..Len(positions) |-> rows[positions[k]]]

\* DataFrame.drop_duplicates(subset = ["ID", "date_UTC"]): the first row of
\* each (ID, date_UTC) is kept, in order
DropDuplicateGranules(rows) ==
    LET First(i) == \A j \in 1..(i - 1) :
                       ~ (rows[j].ID = rows[i].ID /\ rows[j].date_UTC = rows[i].date_UTC)
    IN  AtPositions(rows, First)

\* a store that keeps every row it is handed
ConcatGranules(store, granules) == store \o granules

\* line 546: pd.concat([self._granules, granules]).drop_duplicates(...)
MergeGranules(store, granules) == DropDuplicateGranules(store \o granules)

\* a loop that raises on the first failed attempt
SearchWithoutRetry(attempt_count, sleeps, n_retries, failing, answer) ==
    IF ~(attempt_count < n_retries)
    THEN [status |-> "UnboundLocalError", granules |-> <<>>,
          attempts |-> attempt_count, sleeps |-> sleeps]
    ELSE IF failing = 0
         THEN [status |-> "ok", granules |-> answer,
               attempts |-> attempt_count + 1, sleeps |-> sleeps]
         ELSE [status |-> "HLSServerUnreachable", granules |-> <<>>,
               attempts |-> attempt_count + 1, sleeps |-> sleeps]

\* a loop that sleeps after every failed attempt, the last one too
RECURSIVE SearchLoopSleepingLast(_, _, _, _, _)
SearchLoopSleepingLast(attempt_count, sleeps, n_retries, failing, answer) ==
    IF ~(attempt_count < n_retries)
    THEN [status |-> IF attempt_count = 0 THEN "UnboundLocalError"
                                          ELSE "HLSServerUnreachable",
          granules |-> <<>>, attempts |-> attempt_count, sleeps |-> sleeps]
    ELSE IF attempt_count + 1 > failing
         THEN [status |-> "ok", granules |-> answer,
               attempts |-> attempt_count + 1, sleeps |-> sleeps]
         ELSE SearchLoopSleepingLast(attempt_count + 1, sleeps + 1,
                                     n_retries, failing, answer)

\* The retry loop of search, lines 522-544, entered with attempt_count attempts
\* made.  failing is the number of attempts on which HLS_CMR_query raises
\* before the catalog answers; answer is what it then returns.
RECURSIVE SearchLoop(_, _, _, _, _)
SearchLoop(attempt_count, sleeps, n_retries, failing, answer) ==
    IF ~(attempt_count < n_retries)
    THEN \* the loop ends without break: granules was never bound
         [status |-> "UnboundLocalError", granules |-> <<>>,
          attempts |-> attempt_count, sleeps |-> sleeps]
    ELSE LET attempt == attempt_count + 1 IN
         IF attempt > failing
         THEN [status |-> "ok", granules |-> answer,
               attempts |-> attempt, sleeps |-> sleeps]
         ELSE IF attempt < n_retries
              THEN SearchLoop(attempt, sleeps + 1, n_retries, failing, answer)
              ELSE [status |-> "HLSServerUnreachable", granules |-> <<>>,
                    attempts |-> attempt, sleeps |-> sleeps]

\* search(tile, start_UTC, end_UTC): the outcome of the loop and the granule
\* store after the call; known tells that the store already held every row found
search(cat, store, n_retries, tile, start_UTC, end_UTC, failing) ==
    LET loop == SearchLoop(0, 0, n_retries, failing,
                           HLS_CMR_query(cat, tile, start_UTC, end_UTC))
    IN  [status   |-> loop.status,
         granules |-> loop.granules,
         attempts |-> loop.attempts,
         sleeps   |-> loop.sleeps,
         known    |-> \A i \in 1..Len(loop.granules) :
                        \E j \in 1..Len(store) : store[j] = loop.granules[i],
         store    |-> IF loop.status = "ok"
                      THEN MergeGranules(store, loop.granules)
                      ELSE store]

-----------------------------------------------------------------------------
(* HLS2CMR.dates_listed and HLS2CMR.listing *)

\* date_range(start, end) of the daterange package: every date from start to end
date_range(start_UTC, end_UTC) == start_UTC..end_UTC

\* dates_listed(tile)
dates_listed(listed, tile) ==
    { listed[i].date_UTC : i \in { j \in 1..Len(listed) : listed[j].tile = tile } }

\* DataFrame.sort_values(by = "date_UTC"): ascending by date, the rows of one
\* date in their order; the rows of the dates first .. last, date by date
RECURSIVE SortedFrom(_, _, _)
SortedFrom(rows, first, last) ==
    IF first > last THEN <<>>
    ELSE LET OfDate(r) == r.date_UTC = first
         IN  SelectSeq(rows, OfDate) \o SortedFrom(rows, first + 1, last)

SortValuesByDate(rows) ==
    IF rows = <<>> THEN <<>>
    ELSE LET dates == { rows[i].date_UTC : i \in 1..Len(rows) }
             earliest == CHOOSE d \in dates : \A e \in dates : d <= e
             latest == CHOOSE d \in dates : \A e \in dates : d >= e
         IN  SortedFrom(rows, earliest, latest)

\* the rows of the cache for the tile, whatever their date
ListingOfTile(listed, tile, start_UTC, end_UTC) ==
    LET InTile(r) == r.tile = tile
    IN  SortValuesByDate(SelectSeq(listed, InTile))

\* lines 578-580: the rows of the cache for the tile and the range, by date
ListingSubset(listed, tile, start_UTC, end_UTC) ==
    LET InTile(r) == r.tile = tile
        InRange(r) == r.date_UTC >= start_UTC /\ r.date_UTC <= end_UTC
    IN  SortValuesByDate(SelectSeq(SelectSeq(listed, InTile), InRange))

\* lines 598-601: the granules of one sensor as (date_UTC, tile, granule) rows
SensorGranules(granules, sensor) ==
    LET OfSensor(r) == r.sensor = sensor
        rows == SelectSeq(granules, OfSensor)
    IN  [i \in 1..Len(rows) |->
            [date_UTC |-> rows[i].date_UTC, tile |-> rows[i].tile,
             granule |-> Granule(rows[i].granule)]]

\* the values of the granule column of the rows with key (date_UTC, tile);
\* a key without a row of this frame joins as one NaN
Joined(rows, date_UTC, tile) ==
    LET OfKey(r) == r.date_UTC = date_UTC /\ r.tile = tile
        own == SelectSeq(rows, OfKey)
    IN  IF own = <<>> THEN <<NaN>> ELSE [i \in 1..Len(own) |-> own[i].granule]

\* lines 606-616, the rows of one date: pd.merge(dates, pd.merge(landsat_granules,
\* sentinel_granules, how = "outer"), how = "left") joins on (date_UTC, tile);
\* every landsat row of the key pairs with every sentinel row of the key,
\* and a date without a granule gets one row of NaN
RowsOfDate(landsat_granules, sentinel_granules, date_UTC, tile) ==
    LET L == Joined(landsat_granules, date_UTC, tile)
        S == Joined(sentinel_granules, date_UTC, tile)
    IN  [k \in 1..(Len(L) * Len(S)) |->
            [date_UTC |-> date_UTC, tile |-> tile,
             sentinel |-> S[((k - 1) % Len(S)) + 1],
             landsat  |-> L[((k - 1) \div Len(S)) + 1]]]

\* lines 606-616: the merged frame, the dates of the range in ascending order
RECURSIVE MergedListing(_, _, _, _, _)
MergedListing(landsat_granules, sentinel_granules, tile, start_UTC, end_UTC) ==
    IF start_UTC > end_UTC THEN <<>>
    ELSE RowsOfDate(landsat_granules, sentinel_granules, start_UTC, tile)
         \o MergedListing(landsat_granules, sentinel_granules, tile, start_UTC + 1, end_UTC)

\* expected dates inferred one cycle after an observation only
DatesExpectedFromObserved(date_list, i, sensor_dates, repeat_days, expected) ==
    { date_list[k] : k \in { j \in i..Len(date_list) :
                               \/ date_list[j] \in sensor_dates
                               \/ (date_list[j] - repeat_days) \in sensor_dates } }
    \cup expected

\* lines 621-629 and 644-652: the loop that collects the expected dates of a
\* sensor, from position i of date_list on
RECURSIVE DatesExpected(_, _, _, _, _)
DatesExpected(date_list, i, sensor_dates, repeat_days, expected) ==
    IF i > Len(date_list) THEN expected
    ELSE LET d == date_list[i]
             observed == IF d \in sensor_dates THEN expected \cup {d} ELSE expected
             inferred == IF (d - repeat_days) \in observed
                         THEN observed \cup {d} ELSE observed
         IN  DatesExpected(date_list, i + 1, sensor_dates, repeat_days, inferred)

\* a slot without a granule is missing after the give-up date, whatever is expected
IsMissingUnexpected(slot, date_UTC, expected, giveup_date) ==
    isna(slot) /\ date_UTC >= giveup_date

\* lines 633-636 and 657-660: sentinel_missing / landsat_missing of a row
IsMissing(slot, date_UTC, expected, giveup_date) ==
    /\ ~ (~ isna(slot))
    /\ date_UTC \in expected
    /\ date_UTC >= giveup_date

\* a slot without a granule is "missing" after the give-up date, expected or not
ClassifyWithoutExpected(slot, date_UTC, expected, giveup_date) ==
    IF isna(slot) /\ date_UTC >= giveup_date THEN MISSING ELSE slot

\* a slot of an expected date after the give-up date is "missing", filled or not
ClassifyIgnoringAvailable(slot, date_UTC, expected, giveup_date) ==
    IF date_UTC \in expected /\ date_UTC >= giveup_date THEN MISSING ELSE slot

\* lines 639 and 663
Classify(slot, date_UTC, expected, giveup_date) ==
    IF IsMissing(slot, date_UTC, expected, giveup_date) THEN MISSING ELSE slot

\* a frame of which no row is dropped
KeepAllRows(rows) == rows

\* DataFrame.drop_duplicates(subset = ["date_UTC", "tile"]): the first row of
\* each (date_UTC, tile) is kept, in order
DropDuplicateRows(rows) ==
    LET First(i) == \A j \in 1..(i - 1) :
                       ~ (rows[j].date_UTC = rows[i].date_UTC /\ rows[j].tile = rows[i].tile)
    IN  AtPositions(rows, First)

\* a merge in which the rows of the last call replace the rows of the cache
MergeListingKeepLast(listed, listing) == DropDuplicateRows(listing \o listed)

\* a cache that stores nothing
MergeListingStoresNothing(listed, listing) == listed

\* line 669: pd.concat([self._listing, listing]).drop_duplicates(...)
MergeListing(listed, listing) == DropDuplicateRows(listed \o listing)

\* line 577: is every date of the range listed for the tile
IsListed(listed, tile, start_UTC, end_UTC) ==
    date_range(start_UTC, end_UTC) \subseteq dates_listed(listed, tile)

\* lines 587-589
GiveupDate(now) == now - GIVEUP_DAYS
MaxRepeatDays ==
    IF SENTINEL_REPEAT_DAYS >= LANDSAT_REPEAT_DAYS
    THEN SENTINEL_REPEAT_DAYS ELSE LANDSAT_REPEAT_DAYS
SearchStart(start_UTC) == start_UTC - MaxRepeatDays

\* lines 598-664: the frame listing builds of the granules a search returned
BuildListing(granules, tile, start_UTC, end_UTC, now) ==
    LET sentinel_granules == SensorGranules(granules, "S30")
        landsat_granules == SensorGranules(granules, "L30")
        sentinel_dates == { sentinel_granules[i].date_UTC : i \in 1..Len(sentinel_granules) }
        landsat_dates == { landsat_granules[i].date_UTC : i \in 1..Len(landsat_granules) }
        merged == MergedListing(landsat_granules, sentinel_granules, tile, start_UTC, end_UTC)
        date_list == [i \in 1..Len(merged) |-> merged[i].date_UTC]
        sentinel_dates_expected ==
            DatesExpected(date_list, 1, sentinel_dates, SENTINEL_REPEAT_DAYS, {})
        landsat_dates_expected ==
            DatesExpected(date_list, 1, landsat_dates, LANDSAT_REPEAT_DAYS, {})
        giveup_date == GiveupDate(now)
    IN  [rows |-> [i \in 1..Len(merged) |->
                     [date_UTC |-> merged[i].date_UTC,
                      tile     |-> merged[i].tile,
                      sentinel |-> Classify(merged[i].sentinel, merged[i].date_UTC,
                                            sentinel_dates_expected, giveup_date),
                      landsat  |-> Classify(merged[i].landsat, merged[i].date_UTC,
                                            landsat_dates_expected, giveup_date)]],
         sentinel_dates_expected |-> sentinel_dates_expected,
         landsat_dates_expected  |-> landsat_dates_expected]

\* what a call of listing leaves when it reads nothing from the catalog
Unsearched ==
    [hit |-> FALSE, failing |-> 0, attempts |-> 0, sleeps |-> 0, known |-> FALSE,
     granules |-> <<>>, rows |-> <<>>,
     sentinel_dates_expected |-> {}, landsat_dates_expected |-> {},
     search_start |-> 0, search_end |-> 0]

\* a listing that caches the rows of a range whatever the search did
listing_caching_failures(cat, listed, store, n_retries, now, tile, start_UTC, end_UTC, failing) ==
    LET found == search(cat, store, n_retries, tile,
                        SearchStart(start_UTC), end_UTC, failing)
        built == BuildListing(found.granules, tile, start_UTC, end_UTC, now)
    IN  IF IsListed(listed, tile, start_UTC, end_UTC)
        THEN [Unsearched EXCEPT !.hit = TRUE,
                                !.rows = ListingSubset(listed, tile, start_UTC, end_UTC)]
             @@ [status |-> "ok", listed |-> listed, store |-> store]
        ELSE [Unsearched EXCEPT
                 !.search_start = SearchStart(start_UTC),
                 !.search_end = end_UTC,
                 !.failing = failing,
                 !.attempts = found.attempts,
                 !.sleeps = found.sleeps,
                 !.known = found.known,
                 !.granules = found.granules,
                 !.rows = IF found.status = "ok" THEN built.rows ELSE <<>>,
                 !.sentinel_dates_expected = built.sentinel_dates_expected,
                 !.landsat_dates_expected = built.landsat_dates_expected]
             @@ [status |-> found.status,
                 listed |-> MergeListing(listed, built.rows),
                 store  |-> found.store]

\* listing(tile, start_UTC, end_UTC), lines 577-671: the outcome of the call,
\* with the cache (listed) and the granule store (store) after it
listing(cat, listed, store, n_retries, now, tile, start_UTC, end_UTC, failing) ==
    IF IsListed(listed, tile, start_UTC, end_UTC)
    THEN \* lines 577-582
         [Unsearched EXCEPT !.hit = TRUE,
                            !.rows = ListingSubset(listed, tile, start_UTC, end_UTC)]
         @@ [status |-> "ok", listed |-> listed, store |-> store]
    ELSE \* lines 587-671
         LET found == search(cat, store, n_retries, tile,
                             SearchStart(start_UTC), end_UTC, failing)
         IN  IF found.status = "ok"
             THEN LET built == BuildListing(found.granules, tile,
                                            start_UTC, end_UTC, now)
                  IN  [Unsearched EXCEPT
                          !.search_start = SearchStart(start_UTC),
                          !.search_end = end_UTC,
                          !.failing = failing,
                          !.attempts = found.attempts,
                          !.sleeps = found.sleeps,
                          !.known = found.known,
                          !.granules = found.granules,
                          !.rows = built.rows,
                          !.sentinel_dates_expected = built.sentinel_dates_expected,
                          !.landsat_dates_expected = built.landsat_dates_expected]
                      @@ [status |-> "ok",
                          listed |-> MergeListing(listed, built.rows),
                          store  |-> found.store]
             ELSE \* the error of search propagates, line 591
                  [Unsearched EXCEPT
                          !.search_start = SearchStart(start_UTC),
                          !.search_end = end_UTC,
                          !.failing = failing,
                          !.attempts = found.attempts,
                          !.sleeps = found.sleeps]
                      @@ [status |-> found.status, listed |-> listed, store |-> store]

-----------------------------------------------------------------------------
(* The accessors of one date *)

\* lines 680-687 and 696-710: what the accessor of a sensor makes of the slot
\* of the last row, listing.iloc[-1]
SlotOutcome(granule, NotAvailable, Missing) ==
    IF isna(granule)
    THEN [status |-> NotAvailable, returned |-> NaN]
    ELSE IF granule = MISSING
         THEN [status |-> Missing, returned |-> NaN]
         ELSE [status |-> "ok", returned |-> granule]

\* an accessor that hands on whatever the slot holds
SlotHandedOn(cat, listed, store, n_retries, now, tile, date_UTC, failing) ==
    LET done == listing(cat, listed, store, n_retries, now,
                        tile, date_UTC, date_UTC, failing)
    IN  IF done.status # "ok"
        THEN [status |-> done.status, returned |-> NaN, done |-> done]
        ELSE [status |-> "ok", returned |-> done.rows[Len(done.rows)].sentinel,
              done |-> done]

\* sentinel_granule(tile, date_UTC), lines 673-687; done is the outcome of the
\* listing call it makes, whose error propagates
sentinel_granule(cat, listed, store, n_retries, now, tile, date_UTC, failing) ==
    LET Outcome(done) ==
            IF done.status # "ok"
            THEN [status |-> done.status, returned |-> NaN, done |-> done]
            ELSE SlotOutcome(done.rows[Len(done.rows)].sentinel,
                             "HLSSentinelNotAvailable", "HLSSentinelMissing")
                 @@ [done |-> done]
    IN  CHOOSE granule \in
            { Outcome(done) :
                done \in { listing(cat, listed, store, n_retries, now,
                                   tile, date_UTC, date_UTC, failing) } } : TRUE

\* landsat_granule(tile, date_UTC), lines 689-710
landsat_granule(cat, listed, store, n_retries, now, tile, date_UTC, failing) ==
    LET Outcome(done) ==
            IF done.status # "ok"
            THEN [status |-> done.status, returned |-> NaN, done |-> done]
            ELSE SlotOutcome(done.rows[Len(done.rows)].landsat,
                             "HLSLandsatNotAvailable", "HLSLandsatMissing")
                 @@ [done |-> done]
    IN  CHOOSE granule \in
            { Outcome(done) :
                done \in { listing(cat, listed, store, n_retries, now,
                                   tile, date_UTC, date_UTC, failing) } } : TRUE

\* date_directory and sentinel_directory, lines 244-256: the directory of a
\* granule is named by the date and the granule's ID
sentinel_directory(granule, date_UTC) == <<date_UTC, granule_id(granule)>>

\* landsat_directory, lines 258-265, when the date is not marked unavailable
landsat_directory(granule, date_UTC) == <<date_UTC, granule_id(granule)>>

\* the results earthaccess.download may hand back for the files of a granule:
\* a path or an Exception for each file
DownloadResults ==
    { <<>> } \cup [1..1 -> {"path", "Exception"}] \cup [1..2 -> {"path", "Exception"}]

\* lines 279-285 and 298-304: the loop over file_paths and the granule object
Downloaded(got, class, directory, file_paths) ==
    IF \E i \in 1..Len(file_paths) : file_paths[i] = "Exception"
    THEN [got EXCEPT !.status = "HLSDownloadFailed", !.returned = NaN]
         @@ [downloaded |-> TRUE, file_paths |-> file_paths]
    ELSE [got EXCEPT !.returned = <<class, directory>>]
         @@ [downloaded |-> TRUE, file_paths |-> file_paths]

\* a download that looks at the result of the first file only
sentinel_first_file_only(cat, listed, store, n_retries, now, tile, date_UTC, failing, file_paths) ==
    LET got == sentinel_granule(cat, listed, store, n_retries, now,
                                tile, date_UTC, failing)
    IN  IF got.status # "ok"
        THEN got @@ [downloaded |-> FALSE, file_paths |-> <<>>]
        ELSE [Downloaded(got, "HLS2SentinelGranule",
                         sentinel_directory(got.returned[2], date_UTC),
                         IF file_paths = <<>> THEN <<>> ELSE <<file_paths[1]>>)
              EXCEPT !.file_paths = file_paths]

\* sentinel(tile, date_UTC), lines 267-285; file_paths is what the download
\* hands back
sentinel(cat, listed, store, n_retries, now, tile, date_UTC, failing, file_paths) ==
    LET Fetched(got) ==
            IF got.status # "ok"
            THEN got @@ [downloaded |-> FALSE, file_paths |-> <<>>]
            ELSE Downloaded(got, "HLS2SentinelGranule",
                            sentinel_directory(got.returned[2], date_UTC), file_paths)
    IN  CHOOSE hls_granule \in
            { Fetched(got) :
                got \in { sentinel_granule(cat, listed, store, n_retries, now,
                                           tile, date_UTC, failing) } } : TRUE

\* landsat(tile, date_UTC), lines 287-304; landsat_directory, lines 258-265,
\* raises HLSLandsatNotAvailable when check_unavailable_date tells that the
\* date was marked: marked is its answer
landsat(cat, listed, store, n_retries, now, tile, date_UTC, failing, file_paths, marked) ==
    LET Fetched(got) ==
            IF got.status # "ok"
            THEN got @@ [downloaded |-> FALSE, file_paths |-> <<>>]
            ELSE IF marked
                 THEN [got EXCEPT !.status = "HLSLandsatNotAvailable", !.returned = NaN]
                      @@ [downloaded |-> FALSE, file_paths |-> <<>>]
                 ELSE Downloaded(got, "HLS2LandsatGranule",
                                 landsat_directory(got.returned[2], date_UTC), file_paths)
    IN  CHOOSE hls_granule \in
            { Fetched(got) :
                got \in { landsat_granule(cat, listed, store, n_retries, now,
                                          tile, date_UTC, failing) } } : TRUE

-----------------------------------------------------------------------------
(* NDVI and albedo: the products of one date *)

\* what NDVI and albedo are called with and meet: is the product file there
\* already, the attempts of the catalog that fail, what the download of each
\* sensor hands back, is the date marked unavailable for Landsat, and has the
\* granule of each sensor the bands of the product
ProductDownloads == { <<"path">>, <<"Exception">> }
ProductInputs ==
    [product_exists : {TRUE}, failing : {0}, sentinel_files : {<<"path">>},
     landsat_files : {<<"path">>}, marked : {FALSE},
     sentinel_band : {TRUE}, landsat_band : {TRUE}]
    \cup
    [product_exists : {FALSE}, failing : {0, DEFAULT_RETRIES},
     sentinel_files : ProductDownloads, landsat_files : ProductDownloads,
     marked : BOOLEAN, sentinel_band : BOOLEAN, landsat_band : BOOLEAN]

\* lines 351-364 and 447-461: the product of the granules that were resolved;
\* a granule without the band raises HLSBandNotAcquired, which is turned into
\* HLSNotAvailable when the granule is the only one
Composite(sentinel_resolved, landsat_resolved, sentinel_band, landsat_band) ==
    IF ~ sentinel_resolved /\ ~ landsat_resolved
    THEN "HLSNotAvailable"
    ELSE IF sentinel_resolved /\ ~ landsat_resolved
         THEN IF sentinel_band THEN "ok" ELSE "HLSNotAvailable"
         ELSE IF ~ sentinel_resolved /\ landsat_resolved
              THEN IF landsat_band THEN "ok" ELSE "HLSNotAvailable"
              ELSE IF sentinel_band /\ landsat_band
                   THEN "ok" ELSE "HLSBandNotAcquired"

\* the outcome of a product: its status, the outcome of the call to each
\* sensor ("none" when the call was not made), the cache and the store
ProductOutcome(status, sentinel_status, landsat_status, listed, store) ==
    [status |-> status, sentinel_status |-> sentinel_status,
     landsat_status |-> landsat_status, listed |-> listed, store |-> store]

\* a resolution that absorbs every outcome of Sentinel and goes on to Landsat
ResolveSensorsAbsorbing(cat, listed, store, n_retries, now, tile, date_UTC, inp) ==
    LET AfterSentinel(s) ==
            LET AfterLandsat(l) ==
                    IF l.status \notin {"ok", "HLSLandsatNotAvailable"}
                    THEN ProductOutcome(l.status, s.status, l.status,
                                        l.done.listed, l.done.store)
                    ELSE ProductOutcome(
                             Composite(s.status = "ok", l.status = "ok",
                                       inp.sentinel_band, inp.landsat_band),
                             s.status, l.status, l.done.listed, l.done.store)
            IN  CHOOSE product \in
                    { AfterLandsat(l) :
                        l \in { landsat(cat, s.done.listed, s.done.store, n_retries,
                                        now, tile, date_UTC, inp.failing,
                                        inp.landsat_files, inp.marked) } } : TRUE
    IN  CHOOSE product \in
            { AfterSentinel(s) :
                s \in { sentinel(cat, listed, store, n_retries, now, tile,
                                 date_UTC, inp.failing, inp.sentinel_files) } } : TRUE

\* lines 337-364 and 433-461: Sentinel is resolved, then Landsat; the
\* NotAvailable error of a sensor is caught and every other error propagates
ResolveSensors(cat, listed, store, n_retries, now, tile, date_UTC, inp) ==
    LET AfterSentinel(s) ==
            IF s.status \notin {"ok", "HLSSentinelNotAvailable"}
            THEN ProductOutcome(s.status, s.status, "none",
                                s.done.listed, s.done.store)
            ELSE LET AfterLandsat(l) ==
                         IF l.status \notin {"ok", "HLSLandsatNotAvailable"}
                         THEN ProductOutcome(l.status, s.status, l.status,
                                             l.done.listed, l.done.store)
                         ELSE ProductOutcome(
                                  Composite(s.status = "ok", l.status = "ok",
                                            inp.sentinel_band, inp.landsat_band),
                                  s.status, l.status, l.done.listed, l.done.store)
                 IN  CHOOSE product \in
                         { AfterLandsat(l) :
                             l \in { landsat(cat, s.done.listed, s.done.store,
                                             n_retries, now, tile, date_UTC,
                                             inp.failing, inp.landsat_files,
                                             inp.marked) } } : TRUE
    IN  CHOOSE product \in
            { AfterSentinel(s) :
                s \in { sentinel(cat, listed, store, n_retries, now, tile,
                                 date_UTC, inp.failing, inp.sentinel_files) } } : TRUE

\* NDVI(tile, date_UTC), lines 306-384: a product file that exists is loaded
NDVI(cat, listed, store, n_retries, now, tile, date_UTC, inp) ==
    IF inp.product_exists
    THEN ProductOutcome("ok", "none", "none", listed, store)
    ELSE ResolveSensors(cat, listed, store, n_retries, now, tile, date_UTC, inp)

\* albedo(tile, date_UTC), lines 401-481
albedo(cat, listed, store, n_retries, now, tile, date_UTC, inp) ==
    IF inp.product_exists
    THEN ProductOutcome("ok", "none", "none", listed, store)
    ELSE ResolveSensors(cat, listed, store, n_retries, now, tile, date_UTC, inp)

-----------------------------------------------------------------------------
(* generate_HLS_timeseries: the dates available for each tile *)

\* DataFrame.dropna(how = "all", subset = ["sentinel", "landsat"]), line 142:
\* the rows of which both slots are null are dropped
dropna(rows) ==
    LET Kept(r) == ~ (isna(r.sentinel) /\ isna(r.landsat))
    IN  SelectSeq(rows, Kept)

\* lines 145 and 163: tile_dates[tile] = dates_available, as (tile, date) pairs
WithDatesAvailable(tile_dates, tile, rows) ==
    { p \in tile_dates : p[1] # tile }
    \cup { <<tile, rows[i].date_UTC>> : i \in 1..Len(rows) }

\* the loop over the tiles, lines 133-166, from tile i on: every tile is
\* listed on the connection and the error of a listing propagates
RECURSIVE QueryTiles(_, _, _, _, _, _, _, _, _, _, _)
QueryTiles(cat, listed, store, n_retries, now, tiles, i, start_UTC, end_UTC, failing, tile_dates) ==
    IF i > Len(tiles)
    THEN [status |-> "ok", tile_dates |-> tile_dates, listed |-> listed, store |-> store]
    ELSE LET Rest(done) ==
                 IF done.status # "ok"
                 THEN [status |-> done.status, tile_dates |-> tile_dates,
                       listed |-> done.listed, store |-> done.store]
                 ELSE QueryTiles(cat, done.listed, done.store, n_retries, now,
                                 tiles, i + 1, start_UTC, end_UTC, failing,
                                 WithDatesAvailable(tile_dates, tiles[i],
                                                    dropna(done.rows)))
         IN  CHOOSE queried \in
                 { Rest(done) :
                     done \in { listing(cat, listed, store, n_retries, now,
                                        tiles[i], start_UTC, end_UTC, failing) } } : TRUE

-----------------------------------------------------------------------------
(* The state machine *)

\* the calls a client makes: (tile, start_UTC, end_UTC)
Queries ==
    { <<"11SPS", 11, 11>>, <<"11SPS", 1, 11>>, <<"11SPS", 11, MaxDay>>,
      <<"11SPS", 1, MaxDay>>, <<"11SQS", 1, 11>>, <<"11SQS", 11, MaxDay>> }

\* the calls of SpecRetry
RetryQueries == { <<"11SPS", 11, 11>>, <<"11SPS", 1, 11>>, <<"11SQS", 1, MaxDay>> }

\* the catalogs a behaviour may start with
Catalogs == {SentinelOnly, TwoSensors, Published}

NoResult ==
    [op |-> "none", tile |-> "", start |-> 0, end |-> 0, now |-> 0,
     status |-> "none", hit |-> FALSE, failing |-> 0, attempts |-> 0,
     sleeps |-> 0, known |-> FALSE, rows |-> <<>>, granules |-> <<>>,
     sentinel_dates_expected |-> {}, landsat_dates_expected |-> {},
     date_UTC |-> 0, returned |-> NaN, downloaded |-> FALSE, file_paths |-> <<>>,
     search_start |-> 0, search_end |-> 0, tile_dates |-> {},
     sentinel_status |-> "none", landsat_status |-> "none",
     product_exists |-> FALSE, sentinel_band |-> FALSE, landsat_band |-> FALSE]

\* the threads of a client that share the connection
Threads == {1, 2}

\* a thread that has not called listing: pc is its position in the call,
\* granules and rows are the locals of search and of listing, seen_granules
\* and seen are the self._granules and the self._listing it read to merge;
\* began (the threads that had returned when it called) and read_after (the
\* threads that had written the cache when it read it) are history
IdleThread ==
    [pc |-> "idle", tile |-> "", start |-> 0, end |-> 0, status |-> "none",
     hit |-> FALSE, granules |-> <<>>, rows |-> <<>>,
     seen_granules |-> <<>>, seen |-> <<>>,
     began |-> {}, read_after |-> {}, written |-> FALSE]

\* HLS2CMR.__init__, lines 238-242, with n_retries as retries
Constructed(n_retries) ==
    /\ today = MaxDay
    /\ retries = n_retries
    /\ _listing = <<>>
    /\ _granules = <<>>
    /\ result = NoResult
    /\ gaveup = {}
    /\ ncalls = 0
    /\ threads = [t \in Threads |-> IdleThread]

\* a connection constructed with the default retries
Init ==
    /\ catalog \in Catalogs
    /\ Constructed(DEFAULT_RETRIES)

\* the (tile, date, sensor) for which the rows hold "missing"
MissingIn(rows) ==
    { <<rows[i].tile, rows[i].date_UTC, "sentinel">> :
        i \in { j \in 1..Len(rows) : rows[j].sentinel = MISSING } }
    \cup
    { <<rows[i].tile, rows[i].date_UTC, "landsat">> :
        i \in { j \in 1..Len(rows) : rows[j].landsat = MISSING } }

\* HLS2CMR.search(tile, start_UTC, end_UTC), called by a client
Search(tile, start_UTC, end_UTC, failing) ==
    \E found \in { search(catalog, _granules, retries, tile,
                          start_UTC, end_UTC, failing) } :
        /\ ncalls' = ncalls + 1
        /\ _granules' = found.store
        /\ result' = [NoResult EXCEPT
                        !.op = "search", !.tile = tile, !.start = start_UTC,
                        !.end = end_UTC, !.now = today, !.status = found.status,
                        !.failing = failing, !.attempts = found.attempts,
                        !.sleeps = found.sleeps, !.known = found.known,
                        !.granules = found.granules]
        /\ UNCHANGED <<threads, catalog, today, retries, _listing, gaveup>>

\* HLS2CMR.listing(tile, start_UTC, end_UTC), called by a client
Listing(tile, start_UTC, end_UTC, failing) ==
    \E done \in { listing(catalog, _listing, _granules, retries, today,
                          tile, start_UTC, end_UTC, failing) } :
        /\ ncalls' = ncalls + 1
        /\ _listing' = done.listed
        /\ _granules' = done.store
        /\ result' = [NoResult EXCEPT
                        !.op = "listing", !.tile = tile, !.start = start_UTC,
                        !.end = end_UTC, !.now = today, !.status = done.status,
                        !.hit = done.hit, !.failing = done.failing,
                        !.attempts = done.attempts, !.sleeps = done.sleeps,
                        !.known = done.known, !.granules = done.granules,
                        !.rows = done.rows,
                        !.search_start = done.search_start,
                        !.search_end = done.search_end,
                        !.sentinel_dates_expected = done.sentinel_dates_expected,
                        !.landsat_dates_expected = done.landsat_dates_expected]
        /\ gaveup' = gaveup \cup MissingIn(done.rows)
        /\ UNCHANGED <<threads, catalog, today, retries>>

\* the state after a call of an accessor or of a download of one date
Accessed(op, tile, date_UTC, got) ==
    /\ ncalls' = ncalls + 1
    /\ _listing' = got.done.listed
    /\ _granules' = got.done.store
    /\ result' = [NoResult EXCEPT
                    !.op = op, !.tile = tile, !.start = date_UTC,
                    !.end = date_UTC, !.date_UTC = date_UTC, !.now = today,
                    !.status = got.status, !.hit = got.done.hit,
                    !.failing = got.done.failing, !.attempts = got.done.attempts,
                    !.sleeps = got.done.sleeps, !.rows = got.done.rows,
                    !.returned = got.returned,
                    !.downloaded = IF "downloaded" \in DOMAIN got
                                   THEN got.downloaded ELSE FALSE,
                    !.file_paths = IF "file_paths" \in DOMAIN got
                                   THEN got.file_paths ELSE <<>>]
    /\ gaveup' = gaveup \cup MissingIn(got.done.rows)
    /\ UNCHANGED <<threads, catalog, today, retries>>

\* HLS2CMR.sentinel_granule(tile, date_UTC), called by a client
SentinelGranule(tile, date_UTC, failing) ==
    \E got \in { sentinel_granule(catalog, _listing, _granules, retries, today,
                                  tile, date_UTC, failing) } :
        Accessed("sentinel_granule", tile, date_UTC, got)

\* HLS2CMR.landsat_granule(tile, date_UTC), called by a client
LandsatGranule(tile, date_UTC, failing) ==
    \E got \in { landsat_granule(catalog, _listing, _granules, retries, today,
                                 tile, date_UTC, failing) } :
        Accessed("landsat_granule", tile, date_UTC, got)

\* HLS2CMR.sentinel(tile, date_UTC), called by a client
Sentinel(tile, date_UTC, failing, file_paths) ==
    \E got \in { sentinel(catalog, _listing, _granules, retries, today,
                          tile, date_UTC, failing, file_paths) } :
        Accessed("sentinel", tile, date_UTC, got)

\* HLS2CMR.landsat(tile, date_UTC), called by a client
Landsat(tile, date_UTC, failing, file_paths, marked) ==
    \E got \in { landsat(catalog, _listing, _granules, retries, today,
                         tile, date_UTC, failing, file_paths, marked) } :
        Accessed("landsat", tile, date_UTC, got)

\* generate_HLS_timeseries(bands, tiles, start_date_UTC, end_date_UTC), up
\* to the dates for which it requests products
GenerateTimeseries(tiles, start_UTC, end_UTC, failing) ==
    \E queried \in { QueryTiles(catalog, _listing, _granules, retries, today,
                                tiles, 1, start_UTC, end_UTC, failing, {}) } :
        /\ ncalls' = ncalls + 1
        /\ _listing' = queried.listed
        /\ _granules' = queried.store
        /\ result' = [NoResult EXCEPT
                        !.op = "generate_HLS_timeseries", !.start = start_UTC,
                        !.end = end_UTC, !.now = today, !.failing = failing,
                        !.status = queried.status,
                        !.tile_dates = queried.tile_dates]
        /\ UNCHANGED <<threads, catalog, today, retries, gaveup>>

\* the state after a call of NDVI or albedo
Produced(op, tile, date_UTC, inp, product) ==
    /\ ncalls' = ncalls + 1
    /\ _listing' = product.listed
    /\ _granules' = product.store
    /\ result' = [NoResult EXCEPT
                    !.op = op, !.tile = tile, !.start = date_UTC,
                    !.end = date_UTC, !.date_UTC = date_UTC, !.now = today,
                    !.failing = inp.failing, !.status = product.status,
                    !.sentinel_status = product.sentinel_status,
                    !.landsat_status = product.landsat_status,
                    !.product_exists = inp.product_exists,
                    !.sentinel_band = inp.sentinel_band,
                    !.landsat_band = inp.landsat_band]
    /\ UNCHANGED <<threads, catalog, today, retries, gaveup>>

\* HLS2CMR.NDVI(tile, date_UTC), called by a client
NDVIProduct(tile, date_UTC, inp) ==
    \E product \in { NDVI(catalog, _listing, _granules, retries, today,
                          tile, date_UTC, inp) } :
        Produced("NDVI", tile, date_UTC, inp, product)

\* HLS2CMR.albedo(tile, date_UTC), called by a client
AlbedoProduct(tile, date_UTC, inp) ==
    \E product \in { albedo(catalog, _listing, _granules, retries, today,
                            tile, date_UTC, inp) } :
        Produced("albedo", tile, date_UTC, inp, product)

\* a thread calls listing, lines 577-596 and 522-544: a range that is
\* listed is answered from the cache; else the catalog is searched
ThreadCall(t, tile, start_UTC, end_UTC, failing) ==
    /\ threads[t].pc = "idle"
    /\ LET called == [IdleThread EXCEPT
                         !.tile = tile, !.start = start_UTC, !.end = end_UTC,
                         !.began = { u \in Threads : threads[u].pc = "done" }]
       IN  IF IsListed(_listing, tile, start_UTC, end_UTC)
           THEN threads' = [threads EXCEPT ![t] =
                    [called EXCEPT
                        !.pc = "done", !.status = "ok", !.hit = TRUE,
                        !.rows = ListingSubset(_listing, tile, start_UTC, end_UTC)]]
           ELSE \E loop \in { SearchLoop(0, 0, retries, failing,
                                         HLS_CMR_query(catalog, tile,
                                                       SearchStart(start_UTC),
                                                       end_UTC)) } :
                    threads' = [threads EXCEPT ![t] =
                        IF loop.status = "ok"
                        THEN [called EXCEPT !.pc = "searched",
                                            !.granules = loop.granules]
                        ELSE [called EXCEPT !.pc = "done",
                                            !.status = loop.status]]
    /\ UNCHANGED <<catalog, today, retries, _listing, _granules, result,
                   gaveup, ncalls>>

\* line 546, the operand: the thread reads self._granules
ThreadReadGranules(t) ==
    /\ threads[t].pc = "searched"
    /\ threads' = [threads EXCEPT ![t].pc = "read_granules",
                                  ![t].seen_granules = _granules]
    /\ UNCHANGED <<catalog, today, retries, _listing, _granules, result,
                   gaveup, ncalls>>

\* line 546, the assignment, and lines 598-664: the thread writes the store
\* it merged back and builds its frame of the granules search returned
ThreadWriteGranules(t) ==
    /\ threads[t].pc = "read_granules"
    /\ _granules' = MergeGranules(threads[t].seen_granules, threads[t].granules)
    /\ threads' = [threads EXCEPT
                      ![t].pc = "built",
                      ![t].rows = BuildListing(threads[t].granules, threads[t].tile,
                                               threads[t].start, threads[t].end,
                                               today).rows]
    /\ UNCHANGED <<catalog, today, retries, _listing, result, gaveup, ncalls>>

\* line 669, the operand: the thread reads self._listing
ThreadReadListing(t) ==
    /\ threads[t].pc = "built"
    /\ threads' = [threads EXCEPT
                      ![t].pc = "read_listing",
                      ![t].seen = _listing,
                      ![t].read_after = { u \in Threads : threads[u].written }]
    /\ UNCHANGED <<catalog, today, retries, _listing, _granules, result,
                   gaveup, ncalls>>

\* line 669, the assignment, and line 671: the thread writes the cache it
\* merged back and returns its frame
ThreadWriteListing(t) ==
    /\ threads[t].pc = "read_listing"
    /\ _listing' = MergeListing(threads[t].seen, threads[t].rows)
    /\ threads' = [threads EXCEPT ![t].pc = "done", ![t].status = "ok",
                                  ![t].written = TRUE]
    /\ UNCHANGED <<catalog, today, retries, _granules, result, gaveup, ncalls>>

\* a day passes: datetime.utcnow().date() advances
Tick ==
    /\ today < MaxDay + 1
    /\ today' = today + 1
    /\ UNCHANGED <<threads, catalog, retries, _listing, _granules, result, gaveup, ncalls>>

\* Spec: a connection with the default retries lists; the catalog fails any
\* number of the attempts of a call
Next ==
    \/ \E q \in Queries, failing \in 0..DEFAULT_RETRIES :
          ncalls < MaxCalls /\ Listing(q[1], q[2], q[3], failing)
    \/ Tick

Spec == Init /\ [][Next]_vars

\* SpecRetry: a connection with any retries searches and lists; the catalog
\* fails any number of attempts
InitRetry ==
    /\ catalog = Published
    /\ \E n_retries \in 0..DEFAULT_RETRIES : Constructed(n_retries)

NextRetry ==
    \/ \E q \in RetryQueries, failing \in 0..DEFAULT_RETRIES :
          ncalls < MaxRetryCalls /\ Search(q[1], q[2], q[3], failing)
    \/ \E q \in RetryQueries, failing \in 0..DEFAULT_RETRIES :
          ncalls < MaxRetryCalls /\ Listing(q[1], q[2], q[3], failing)

SpecRetry == InitRetry /\ [][NextRetry]_vars

\* the dates the accessors are called with, and the listing that precedes them
AccessDates == {1, 11, LANDSAT_REPEAT_DAYS + 1}
AccessQueries == { <<"11SPS", 1, MaxDay>> }

\* SpecAccess: a connection with the default retries lists a range and reads
\* and downloads the granules of single dates; the catalog answers at once or
\* fails every attempt
NextAccess ==
    \/ \E q \in AccessQueries, failing \in {0, DEFAULT_RETRIES} :
          ncalls < MaxAccessCalls /\ Listing(q[1], q[2], q[3], failing)
    \/ \E d \in AccessDates, failing \in {0, DEFAULT_RETRIES} :
          ncalls < MaxAccessCalls /\ SentinelGranule("11SPS", d, failing)
    \/ \E d \in AccessDates, failing \in {0, DEFAULT_RETRIES} :
          ncalls < MaxAccessCalls /\ LandsatGranule("11SPS", d, failing)
    \/ \E d \in AccessDates, failing \in {0, DEFAULT_RETRIES}, file_paths \in DownloadResults :
          ncalls < MaxAccessCalls /\ Sentinel("11SPS", d, failing, file_paths)
    \/ \E d \in AccessDates, failing \in {0, DEFAULT_RETRIES}, file_paths \in DownloadResults,
          marked \in BOOLEAN :
          ncalls < MaxAccessCalls /\ Landsat("11SPS", d, failing, file_paths, marked)
    \/ Tick

SpecAccess == Init /\ [][NextAccess]_vars

\* the tiles and the ranges generate_HLS_timeseries is called with
SeriesTiles == { <<"11SPS">>, <<"11SQS">>, <<"11SPS", "11SQS">> }
SeriesRanges == { <<1, 11>>, <<11, MaxDay>> }

\* SpecSeries: time series are generated on a connection with the default
\* retries, which also lists; the catalog answers at once or fails every attempt
NextSeries ==
    \/ \E tiles \in SeriesTiles, range \in SeriesRanges, failing \in {0, DEFAULT_RETRIES} :
          ncalls < MaxSeriesCalls /\ GenerateTimeseries(tiles, range[1], range[2], failing)
    \/ \E q \in AccessQueries, failing \in {0, DEFAULT_RETRIES} :
          ncalls < MaxSeriesCalls /\ Listing(q[1], q[2], q[3], failing)
    \/ Tick

SpecSeries == Init /\ [][NextSeries]_vars

\* a catalog with a granule of Landsat on a date on which Sentinel is expected
LandsatOnExpected == SentinelOnly \cup { Acquired("L30", "11SPS", 11, 9) }
ProductCatalogs == {TwoSensors, LandsatOnExpected}

\* SpecProduct: products of single dates are made on a connection with the
\* default retries, which also lists
InitProduct ==
    /\ catalog \in ProductCatalogs
    /\ Constructed(DEFAULT_RETRIES)

NextProduct ==
    \/ \E d \in AccessDates, inp \in ProductInputs :
          ncalls < MaxProductCalls /\ NDVIProduct("11SPS", d, inp)
    \/ \E d \in AccessDates, inp \in ProductInputs :
          ncalls < MaxProductCalls /\ AlbedoProduct("11SPS", d, inp)
    \/ \E q \in AccessQueries, failing \in {0, DEFAULT_RETRIES} :
          ncalls < MaxProductCalls /\ Listing(q[1], q[2], q[3], failing)
    \/ Tick

SpecProduct == InitProduct /\ [][NextProduct]_vars

\* SpecConcurrent: two threads of a client call listing on one connection,
\* and nothing serializes them
ThreadQueries ==
    { <<"11SPS", 1, 11>>, <<"11SPS", 11, MaxDay>>, <<"11SQS", 1, 11>> }

NextConcurrent ==
    \/ \E t \in Threads, q \in ThreadQueries, failing \in {0, DEFAULT_RETRIES} :
          ThreadCall(t, q[1], q[2], q[3], failing)
    \/ \E t \in Threads : ThreadReadGranules(t)
    \/ \E t \in Threads : ThreadWriteGranules(t)
    \/ \E t \in Threads : ThreadReadListing(t)
    \/ \E t \in Threads : ThreadWriteListing(t)

SpecConcurrent == Init /\ [][NextConcurrent]_vars

-----------------------------------------------------------------------------
(* Properties *)

\* the last call was a listing call that returned
Listed == result.op = "listing" /\ result.status = "ok"

\* the step is a listing call that returns
ListingStep == ncalls' = ncalls + 1 /\ result'.op = "listing" /\ result'.status = "ok"

\* the catalog holds a granule of the sensor for the tile and the date
HasRecord(tile, date_UTC, sensor) ==
    \E g \in catalog : /\ GranuleRow(g).tile = tile
                       /\ GranuleRow(g).date_UTC = date_UTC
                       /\ GranuleRow(g).sensor = sensor

\* the (sentinel, landsat) cells the rows hold for a date
CellsOf(rows, date_UTC) ==
    { <<rows[i].sentinel, rows[i].landsat>> :
        i \in { j \in 1..Len(rows) : rows[j].date_UTC = date_UTC } }

\* C1: every listing call that returns, from the cache or from a fresh search,
\* returns exactly one row per date of [start, end], in ascending date order,
\* and no other row, also when the catalog holds several granules of one
\* sensor for the tile and a date.
C1_OneRowPerDate ==
    Listed =>
        /\ Len(result.rows) = result.end - result.start + 1
        /\ \A i \in 1..Len(result.rows) :
              /\ result.rows[i].date_UTC = result.start + i - 1
              /\ result.rows[i].tile = result.tile

\* C2: two listing calls in a row with the same arguments, the catalog and
\* the current date unchanged, return the same rows.
C2_Idempotent ==
    [][ ( /\ Listed
          /\ ListingStep
          /\ result'.tile = result.tile
          /\ result'.start = result.start
          /\ result'.end = result.end
          /\ result'.now = result.now
          /\ catalog' = catalog )
        => result'.rows = result.rows ]_vars

\* C3: a listing call on a range A followed by a listing call on a superset
\* range B of the same tile, the catalog unchanged: every date of A has in the
\* rows of B the cells it had in the rows of A.
C3_SupersetKeepsCells ==
    [][ ( /\ Listed
          /\ ListingStep
          /\ result'.tile = result.tile
          /\ result'.start <= result.start
          /\ result.end <= result'.end
          /\ catalog' = catalog )
        => \A d \in result.start..result.end :
              CellsOf(result'.rows, d) = CellsOf(result.rows, d) ]_vars

\* C4: in the rows a listing call builds, a slot is "missing" exactly when the
\* catalog holds no record of the sensor for the date, the date is in the
\* expected set of the sensor and the date is at or before today minus
\* GIVEUP_DAYS; every other slot without a record is null.
C4_MissingWhenGivenUp ==
    (Listed /\ ~ result.hit) =>
        \A i \in 1..Len(result.rows) :
            LET row == result.rows[i]
                old == row.date_UTC <= result.now - GIVEUP_DAYS
                sentinel_due == /\ ~ HasRecord(row.tile, row.date_UTC, "S30")
                                /\ row.date_UTC \in result.sentinel_dates_expected
                                /\ old
                landsat_due == /\ ~ HasRecord(row.tile, row.date_UTC, "L30")
                               /\ row.date_UTC \in result.landsat_dates_expected
                               /\ old
            IN  /\ (row.sentinel = MISSING) <=> sentinel_due
                /\ (row.landsat = MISSING) <=> landsat_due
                /\ (~ HasRecord(row.tile, row.date_UTC, "S30") /\ ~ sentinel_due)
                      => row.sentinel = NaN
                /\ (~ HasRecord(row.tile, row.date_UTC, "L30") /\ ~ landsat_due)
                      => row.landsat = NaN

\* the slot of a sensor in a row
SlotOf(row, sensor) == IF sensor = "sentinel" THEN row.sentinel ELSE row.landsat
ProductOf(sensor) == IF sensor = "sentinel" THEN "S30" ELSE "L30"

\* C5: once a listing call has returned "missing" for a (tile, date, sensor),
\* every later listing call that covers the date returns "missing" for it, as
\* the date advances and the catalog holds no record for it.
C5_MissingStaysMissing ==
    [][ ListingStep =>
          \A m \in gaveup :
            ( /\ m[1] = result'.tile
              /\ m[2] \in result'.start..result'.end
              /\ ~ HasRecord(m[1], m[2], ProductOf(m[3])) )
            => \A i \in 1..Len(result'.rows) :
                  result'.rows[i].date_UTC = m[2]
                      => SlotOf(result'.rows[i], m[3]) = MISSING ]_vars

\* what the catalog answers to the search of the last call
Answer ==
    HLS_CMR_query(catalog, result.tile,
                  IF result.op = "listing" THEN SearchStart(result.start)
                                           ELSE result.start,
                  result.end)

\* C6: when the catalog query fails on the first k attempts, k < retries, and
\* answers on attempt k + 1, search and listing return what that attempt
\* answered (listing: the rows built of it) and raise no error.
C6_RetryThenSucceed ==
    ( /\ result.op \in {"search", "listing"}
      /\ ~ result.hit
      /\ result.failing < retries )
    => /\ result.status = "ok"
       /\ result.attempts = result.failing + 1
       /\ result.granules = Answer
       /\ result.op = "listing"
             => result.rows = BuildListing(Answer, result.tile, result.start,
                                           result.end, result.now).rows

C6_FailedTwiceThenListed ==
    /\ result.op = "listing"
    /\ retries = DEFAULT_RETRIES
    /\ result.failing = DEFAULT_RETRIES - 1
    /\ result.status = "ok"
    /\ result.attempts = DEFAULT_RETRIES
    /\ result.rows # <<>>

\* C7: when the catalog query fails on every one of the retries attempts,
\* retries >= 1, listing raises HLSServerUnreachable and leaves the listing
\* cache and the granule store as they were before the call.
C7_UnreachableLeavesCaches ==
    [][ ( /\ ncalls' = ncalls + 1
          /\ result'.op = "listing"
          /\ ~ result'.hit
          /\ retries >= 1
          /\ result'.failing >= retries )
        => /\ result'.status = "HLSServerUnreachable"
           /\ result'.attempts = retries
           /\ result'.rows = <<>>
           /\ _listing' = _listing
           /\ _granules' = _granules ]_vars

C7_UnreachableAfterListing ==
    /\ result.op = "listing"
    /\ result.status = "HLSServerUnreachable"
    /\ result.attempts = retries
    /\ _listing # <<>>
    /\ _granules # <<>>

\* the dates of the range on which the catalog holds a granule of the sensor
ObservedIn(tile, sensor, start_UTC, end_UTC) ==
    { d \in start_UTC..end_UTC : HasRecord(tile, d, sensor) }

\* E is the least set of dates of the range that holds the observed dates D
\* and holds d whenever it holds d - R
LeastExpected(E, D, R, start_UTC, end_UTC) ==
    /\ E \subseteq start_UTC..end_UTC
    /\ D \subseteq E
    /\ \A d \in start_UTC..end_UTC : (d - R) \in E => d \in E
    /\ \A d \in E : d \in D \/ (d - R) \in E

\* C8: in a listing call that searches, the expected set of a sensor with
\* repeat cycle R is the least set of dates of the requested range that holds
\* every date of the range with a granule of the sensor and holds d whenever
\* it holds d - R; with R = 5 and a single observed date d0, d0 + 5, d0 + 10
\* and d0 + 15 are in it when in the range, and d0 + 7 is not.
C8_ExpectedIsLeastClosed ==
    (Listed /\ ~ result.hit) =>
        LET sentinel_observed == ObservedIn(result.tile, "S30", result.start, result.end)
            landsat_observed == ObservedIn(result.tile, "L30", result.start, result.end)
        IN  /\ LeastExpected(result.sentinel_dates_expected, sentinel_observed,
                             SENTINEL_REPEAT_DAYS, result.start, result.end)
            /\ LeastExpected(result.landsat_dates_expected, landsat_observed,
                             LANDSAT_REPEAT_DAYS, result.start, result.end)
            /\ \A d0 \in sentinel_observed :
                  (sentinel_observed = {d0} /\ SENTINEL_REPEAT_DAYS = 5) =>
                      /\ \A k \in {5, 10, 15} :
                            d0 + k <= result.end
                                => (d0 + k) \in result.sentinel_dates_expected
                      /\ (d0 + 7) \notin result.sentinel_dates_expected

C8_ExpectedThreeCyclesOn ==
    /\ Listed
    /\ ~ result.hit
    /\ \E d0 \in result.start..result.end :
          /\ ObservedIn(result.tile, "S30", result.start, result.end) = {d0}
          /\ d0 + 15 <= result.end
          /\ d0 + 7 <= result.end
          /\ (d0 + 15) \in result.sentinel_dates_expected
    /\ \E d \in result.landsat_dates_expected : ~ HasRecord(result.tile, d, "L30")

\* no two rows of the store have the same ID and date_UTC
NoDuplicateGranules(store) ==
    \A i, j \in 1..Len(store) :
        (store[i].ID = store[j].ID /\ store[i].date_UTC = store[j].date_UTC)
            => i = j

\* C9: the granule store holds at most one row per (ID, date_UTC) after every
\* call, and a search that finds only rows the store already holds leaves the
\* store as it was.
C9_StoreDeduplicated ==
    [][ /\ NoDuplicateGranules(_granules')
        /\ ( /\ ncalls' = ncalls + 1
             /\ result'.status = "ok"
             /\ ~ result'.hit
             /\ result'.known )
           => _granules' = _granules ]_vars

C9_KnownGranulesFoundAgain ==
    /\ result.op = "search"
    /\ result.status = "ok"
    /\ result.known
    /\ result.granules # <<>>
    /\ Len(_granules) > Len(result.granules)

\* every date of the range has a row of the tile in the cache
Covered(listed, tile, start_UTC, end_UTC) ==
    \A d \in start_UTC..end_UTC :
        \E i \in 1..Len(listed) : listed[i].tile = tile /\ listed[i].date_UTC = d

\* the positions of the cache that hold the rows of the tile and the range
CachedAt(listed, tile, start_UTC, end_UTC) ==
    { i \in 1..Len(listed) : /\ listed[i].tile = tile
                             /\ listed[i].date_UTC \in start_UTC..end_UTC }

\* C10: a listing call on a range of which the cache holds every date for the
\* tile searches nothing, leaves the cache and the granule store as they were,
\* and returns the rows the cache holds for the tile and the range, by date.
C10_CoveredRangeFromCache ==
    [][ ( /\ ncalls' = ncalls + 1
          /\ result'.op = "listing"
          /\ Covered(_listing, result'.tile, result'.start, result'.end) )
        => /\ result'.status = "ok"
           /\ result'.attempts = 0
           /\ result'.granules = <<>>
           /\ _listing' = _listing
           /\ _granules' = _granules
           /\ LET at == CachedAt(_listing, result'.tile, result'.start, result'.end)
              IN  /\ Len(result'.rows) = Cardinality(at)
                  /\ { result'.rows[i] : i \in 1..Len(result'.rows) }
                        = { _listing[i] : i \in at }
                  /\ \A i \in 1..(Len(result'.rows) - 1) :
                        result'.rows[i].date_UTC <= result'.rows[i + 1].date_UTC ]_vars

C10_PartOfCacheReturned ==
    /\ result.op = "listing"
    /\ result.hit
    /\ result.rows # <<>>
    /\ Len(_listing) > Len(result.rows)
    /\ \E i \in 1..Len(_listing) :
          _listing[i].tile = result.tile /\ _listing[i].date_UTC < result.start

\* the slots the rows of the last call hold for a sensor
SlotsOf(sensor) ==
    { SlotOf(result.rows[i], sensor) : i \in 1..Len(result.rows) }

\* the outcome of the last call is the typed outcome of the slots of a sensor
TypedOutcome(sensor, NotAvailable, Missing) ==
    /\ result.status \in {"ok", NotAvailable, Missing}
    /\ result.status = "ok" <=> \E g \in catalog : Granule(g) \in SlotsOf(sensor)
    /\ result.status = "ok" =>
          /\ result.returned \in SlotsOf(sensor)
          /\ result.returned \notin {NaN, MISSING}
          /\ \E g \in catalog : /\ result.returned = Granule(g)
                                /\ GranuleRow(g).tile = result.tile
                                /\ GranuleRow(g).date_UTC = result.date_UTC
                                /\ GranuleRow(g).sensor = ProductOf(sensor)
    /\ MISSING \in SlotsOf(sensor) => result.status = Missing
    /\ NaN \in SlotsOf(sensor) => result.status = NotAvailable
    /\ result.status # "ok" => result.returned = NaN

\* C11: sentinel_granule and landsat_granule return the record of a slot that
\* holds one, raise the Missing error of the sensor for a "missing" slot and
\* the NotAvailable error of the sensor for a null slot; they never return
\* null or "missing".
C11_TypedOutcomeOfSlot ==
    /\ (result.op = "sentinel_granule" /\ result.status # "HLSServerUnreachable")
          => TypedOutcome("sentinel", "HLSSentinelNotAvailable", "HLSSentinelMissing")
    /\ (result.op = "landsat_granule" /\ result.status # "HLSServerUnreachable")
          => TypedOutcome("landsat", "HLSLandsatNotAvailable", "HLSLandsatMissing")

C11_SentinelMissingRaised ==
    /\ result.op = "sentinel_granule"
    /\ result.status = "HLSSentinelMissing"
    /\ result.rows # <<>>
    /\ result.rows[Len(result.rows)].sentinel = MISSING
    /\ result.rows[Len(result.rows)].landsat = NaN

\* C14: in sentinel and landsat, an error reported for any file of the download
\* raises HLSDownloadFailed and no granule object is returned; a granule
\* object is returned only when the download reported no error for any file.
C14_DownloadFailedForAnyFile ==
    result.op \in {"sentinel", "landsat"} =>
        /\ ( /\ result.downloaded
             /\ \E i \in 1..Len(result.file_paths) : result.file_paths[i] = "Exception" )
           => (result.status = "HLSDownloadFailed" /\ result.returned = NaN)
        /\ result.returned # NaN
           => /\ result.status = "ok"
              /\ result.downloaded
              /\ \A i \in 1..Len(result.file_paths) : result.file_paths[i] = "path"
              /\ result.returned[1] = IF result.op = "sentinel"
                                      THEN "HLS2SentinelGranule"
                                      ELSE "HLS2LandsatGranule"

C14_SecondFileFailed ==
    /\ result.op = "sentinel"
    /\ result.status = "HLSDownloadFailed"
    /\ result.file_paths = <<"path", "Exception">>
    /\ result.returned = NaN

\* C12: the rows a listing call returns after it queried the catalog are the
\* rows the cache holds for the tile and the range after the call, also for
\* the dates the cache held before the call.
C12_ReturnsRowsOfCache ==
    (Listed /\ ~ result.hit) =>
        result.rows = ListingSubset(_listing, result.tile, result.start, result.end)

\* C13: a search that succeeds with zero granules is no error: listing returns
\* one row per date of the range with both slots null, and the range is
\* covered in the cache.
C13_NoGranulesIsNoError ==
    ( /\ result.op = "listing"
      /\ ~ result.hit
      /\ result.failing < retries
      /\ HLS_CMR_query(catalog, result.tile, SearchStart(result.start), result.end) = <<>> )
    => /\ result.status = "ok"
       /\ Len(result.rows) = result.end - result.start + 1
       /\ \A i \in 1..Len(result.rows) :
             /\ result.rows[i].date_UTC = result.start + i - 1
             /\ result.rows[i].tile = result.tile
             /\ result.rows[i].sentinel = NaN
             /\ result.rows[i].landsat = NaN
       /\ Covered(_listing, result.tile, result.start, result.end)

C13_ListedWithoutGranules ==
    /\ Listed
    /\ ~ result.hit
    /\ result.granules = <<>>
    /\ result.end >= result.now - GIVEUP_DAYS
    /\ Len(result.rows) > 1
    /\ \A i \in 1..Len(result.rows) : result.rows[i].sentinel = NaN

\* C15: in a listing call that searches, a granule of a sensor with repeat
\* cycle R on a date d0 of the pre-roll [start - 16, start) puts every
\* d0 + k * R of [start, end] in the expected set of the sensor.
C15_PreRollUsedForInference ==
    (Listed /\ ~ result.hit) =>
        \A d0 \in SearchStart(result.start)..(result.start - 1) :
            \A d \in result.start..result.end :
                /\ ( /\ HasRecord(result.tile, d0, "S30")
                     /\ (d - d0) % SENTINEL_REPEAT_DAYS = 0 )
                   => d \in result.sentinel_dates_expected
                /\ ( /\ HasRecord(result.tile, d0, "L30")
                     /\ (d - d0) % LANDSAT_REPEAT_DAYS = 0 )
                   => d \in result.landsat_dates_expected

\* the rows of the cache have one row per (date_UTC, tile)
OneRowPerKey(listed) ==
    \A i, j \in 1..Len(listed) :
        (listed[i].date_UTC = listed[j].date_UTC /\ listed[i].tile = listed[j].tile)
            => i = j

\* C16: no call changes or removes a row of the cache: every row the cache
\* holds before a call it holds after it, and the rows a call adds are rows of
\* (date, tile) the cache did not hold.
C16_CachedRowsKept ==
    [][ /\ Len(_listing') >= Len(_listing)
        /\ \A i \in 1..Len(_listing) : _listing'[i] = _listing[i]
        /\ \A j \in (Len(_listing) + 1)..Len(_listing') :
              \A i \in 1..Len(_listing) :
                  ~ ( /\ _listing[i].date_UTC = _listing'[j].date_UTC
                      /\ _listing[i].tile = _listing'[j].tile )
        /\ OneRowPerKey(_listing') ]_vars

C16_FreshRowDiffersFromCached ==
    /\ Listed
    /\ ~ result.hit
    /\ \E i \in 1..Len(result.rows), j \in 1..Len(_listing) :
          /\ _listing[j].date_UTC = result.rows[i].date_UTC
          /\ _listing[j].tile = result.rows[i].tile
          /\ _listing[j].sentinel # result.rows[i].sentinel
          /\ _listing[j].sentinel \in {NaN, MISSING}
          /\ result.rows[i].sentinel \in {NaN, MISSING}

\* the dates a step adds to the coverage of a tile according to the calls: the
\* range of a listing call for the tile that returns, nothing otherwise
RangeListed(tile) ==
    IF /\ ncalls' = ncalls + 1
       /\ result'.op = "listing"
       /\ result'.status = "ok"
       /\ result'.tile = tile
    THEN result'.start..result'.end
    ELSE {}

\* C17: the dates listed for a tile are the union of the ranges [start, end]
\* of the listing calls for the tile that returned: no date is listed before
\* the first call, and every step adds to the dates of a tile the range of the
\* listing call that returns in it and nothing else, neither a date of the
\* pre-roll nor a date of a call that raised.
C17_CoverageIsUnionOfRanges ==
    [][ /\ ncalls = 0 => \A tile \in Tiles : dates_listed(_listing, tile) = {}
        /\ \A tile \in Tiles :
              dates_listed(_listing', tile)
                  = dates_listed(_listing, tile) \cup RangeListed(tile) ]_vars

C17_PreRollSearchedNotListed ==
    /\ Listed
    /\ ~ result.hit
    /\ \E i \in 1..Len(result.granules) : result.granules[i].date_UTC < result.start
    /\ dates_listed(_listing, result.tile) = result.start..result.end
    /\ ncalls > 1

\* the dates of a range the cache does not hold for a tile
Uncovered(listed, tile, start_UTC, end_UTC) ==
    (start_UTC..end_UTC) \ dates_listed(listed, tile)

\* C18: a listing call on a range the cache holds in part searches the
\* uncovered dates only: the search starts 16 days before the first uncovered
\* date and ends on the last uncovered date.
C18_SearchesUncoveredOnly ==
    [][ ( /\ ncalls' = ncalls + 1
          /\ result'.op = "listing"
          /\ ~ result'.hit
          /\ dates_listed(_listing, result'.tile)
                \cap (result'.start..result'.end) # {} )
        => LET uncovered == Uncovered(_listing, result'.tile,
                                      result'.start, result'.end)
           IN  /\ \A d \in uncovered : result'.search_start <= d - MaxRepeatDays
               /\ \E d \in uncovered : result'.search_start = d - MaxRepeatDays
               /\ result'.search_end \in uncovered
               /\ \A d \in uncovered : d <= result'.search_end ]_vars

\* C19: search, called by a client or by listing, makes at most retries
\* attempts and stops at the first one that succeeds; it sleeps once after
\* each failed attempt that another attempt follows and never after the last
\* attempt: with retries >= 1, a search of which every attempt fails makes
\* retries attempts and retries - 1 sleeps and raises HLSServerUnreachable.
C19_BoundedAttemptsAndSleeps ==
    (result.op \in {"search", "listing"} /\ ~ result.hit) =>
        /\ result.attempts <= retries
        /\ result.status = "ok" =>
              /\ result.attempts = result.failing + 1
              /\ result.sleeps = result.failing
        /\ result.status = "HLSServerUnreachable" =>
              /\ result.failing >= retries
              /\ result.attempts = retries
              /\ result.sleeps = retries - 1
        /\ (retries >= 1 /\ result.failing >= retries)
              => result.status = "HLSServerUnreachable"

C19_RaisedAfterTwoSleeps ==
    /\ result.op = "search"
    /\ result.status = "HLSServerUnreachable"
    /\ retries = DEFAULT_RETRIES
    /\ result.attempts = DEFAULT_RETRIES
    /\ result.sleeps = DEFAULT_RETRIES - 1

\* C20: in the rows a listing call builds, the slot of a sensor for a date on
\* which the catalog holds a granule of the sensor for the tile holds such a
\* granule, expected or not and before or after the give-up date, and every
\* such granule is in the slot of a row of the date.
C20_RecordFillsSlot ==
    (Listed /\ ~ result.hit) =>
        /\ \A i \in 1..Len(result.rows) :
              \A sensor \in {"sentinel", "landsat"} :
                  LET row == result.rows[i]
                  IN  HasRecord(row.tile, row.date_UTC, ProductOf(sensor))
                      => \E g \in catalog :
                            /\ SlotOf(row, sensor) = Granule(g)
                            /\ GranuleRow(g).tile = row.tile
                            /\ GranuleRow(g).date_UTC = row.date_UTC
                            /\ GranuleRow(g).sensor = ProductOf(sensor)
        /\ \A g \in catalog :
              ( /\ GranuleRow(g).tile = result.tile
                /\ GranuleRow(g).date_UTC \in result.start..result.end )
              => \E i \in 1..Len(result.rows) :
                    /\ result.rows[i].date_UTC = GranuleRow(g).date_UTC
                    /\ Granule(g) \in {result.rows[i].sentinel, result.rows[i].landsat}

C20_ExpectedDateAfterGiveupFilled ==
    /\ Listed
    /\ ~ result.hit
    /\ \E i \in 1..Len(result.rows) :
          /\ result.rows[i].date_UTC \in result.sentinel_dates_expected
          /\ result.rows[i].date_UTC >= result.now - GIVEUP_DAYS
          /\ result.rows[i].date_UTC > result.start
          /\ result.rows[i].sentinel \notin {NaN, MISSING}

\* the slot of a sensor is "missing" in a row only on a date of the expected
\* set of the sensor, on which the catalog holds no granule of the sensor
MissingOnlyIfExpected(row, sentinel_dates_expected, landsat_dates_expected) ==
    /\ row.sentinel = MISSING =>
          /\ row.date_UTC \in sentinel_dates_expected
          /\ ~ HasRecord(row.tile, row.date_UTC, "S30")
    /\ row.landsat = MISSING =>
          /\ row.date_UTC \in landsat_dates_expected
          /\ ~ HasRecord(row.tile, row.date_UTC, "L30")

\* C21: a slot is "missing" only if the expected set of its sensor in the call
\* that produced the row holds the date: this holds of the rows a call builds,
\* every row a call adds to the cache is a row the call built, and a call
\* served from the cache returns rows of the cache; the expected set of one
\* sensor never makes the slot of the other "missing".
C21_MissingOnlyIfExpected ==
    [][ ListingStep =>
          /\ ~ result'.hit =>
                \A i \in 1..Len(result'.rows) :
                    MissingOnlyIfExpected(result'.rows[i],
                                          result'.sentinel_dates_expected,
                                          result'.landsat_dates_expected)
          /\ \A j \in (Len(_listing) + 1)..Len(_listing') :
                /\ ~ result'.hit
                /\ \E i \in 1..Len(result'.rows) : result'.rows[i] = _listing'[j]
          /\ result'.hit =>
                \A i \in 1..Len(result'.rows) :
                    \E j \in 1..Len(_listing) : _listing[j] = result'.rows[i] ]_vars

C21_LandsatMissingSentinelNull ==
    /\ Listed
    /\ ~ result.hit
    /\ \E i \in 1..Len(result.rows) :
          /\ result.rows[i].landsat = MISSING
          /\ result.rows[i].sentinel = NaN
          /\ result.rows[i].date_UTC \notin result.sentinel_dates_expected
          /\ result.rows[i].date_UTC >= result.now - GIVEUP_DAYS
    /\ \E i \in 1..Len(result.rows) :
          /\ result.rows[i].sentinel = MISSING
          /\ result.rows[i].landsat = NaN
    /\ \E i \in 1..Len(_listing) : _listing[i].landsat = MISSING

\* C23: the cache holds at most one row per (date, tile) after every call,
\* also when the catalog holds several granules of a sensor for a tile and a
\* date: the row the cache keeps for a date it did not hold is the first row
\* the call built for the date.
C23_OneCachedRowPerDate ==
    [][ /\ OneRowPerKey(_listing')
        /\ ListingStep =>
              \A j \in (Len(_listing) + 1)..Len(_listing') :
                  \E i \in 1..Len(result'.rows) :
                      /\ result'.rows[i] = _listing'[j]
                      /\ \A k \in 1..(i - 1) :
                            result'.rows[k].date_UTC # result'.rows[i].date_UTC ]_vars

C23_SeveralRowsOneCached ==
    /\ Listed
    /\ ~ result.hit
    /\ \E i, k \in 1..Len(result.rows) :
          /\ i < k
          /\ result.rows[i].date_UTC = result.rows[k].date_UTC
          /\ result.rows[i].sentinel # result.rows[k].sentinel
          /\ \E j \in 1..Len(_listing) : _listing[j] = result.rows[i]
          /\ \A j \in 1..Len(_listing) : _listing[j] # result.rows[k]

\* C24: with every retries, 0 too, a search returns a result or raises
\* HLSServerUnreachable, and raises no other error.
C24_SearchRaisesOnlyUnreachable ==
    result.op = "search" => result.status \in {"ok", "HLSServerUnreachable"}

\* C25: every date generate_HLS_timeseries records as available for a tile is
\* a date on which the catalog holds a granule of a sensor for the tile: a
\* date of which the slots are null or "missing" is not recorded.
C25_AvailableDatesHaveGranule ==
    result.op = "generate_HLS_timeseries" =>
        \A p \in result.tile_dates :
            HasRecord(p[1], p[2], "S30") \/ HasRecord(p[1], p[2], "L30")

\* the state after a call of NDVI or albedo that found no product file
Resolved == result.op \in {"NDVI", "albedo"} /\ ~ result.product_exists

\* Sentinel is resolved before Landsat, its NotAvailable error is absorbed and
\* Landsat is tried, and its Missing error is raised before Landsat is queried
SentinelBeforeLandsat ==
    /\ result.sentinel_status # "none"
    /\ result.landsat_status # "none" =>
          result.sentinel_status \in {"ok", "HLSSentinelNotAvailable"}
    /\ result.sentinel_status = "HLSSentinelNotAvailable" =>
          /\ result.landsat_status # "none"
          /\ result.status # "HLSSentinelNotAvailable"
    /\ result.sentinel_status = "HLSSentinelMissing" =>
          /\ result.status = "HLSSentinelMissing"
          /\ result.landsat_status = "none"

BothNotAvailable ==
    /\ result.sentinel_status = "HLSSentinelNotAvailable"
    /\ result.landsat_status = "HLSLandsatNotAvailable"

\* one sensor alone was resolved and its granule has not the band
OnlyGranuleWithoutBand ==
    \/ /\ result.sentinel_status = "ok"
       /\ result.landsat_status = "HLSLandsatNotAvailable"
       /\ ~ result.sentinel_band
    \/ /\ result.sentinel_status = "HLSSentinelNotAvailable"
       /\ result.landsat_status = "ok"
       /\ ~ result.landsat_band

\* C26 as stated: NDVI and albedo resolve Sentinel, then Landsat; the
\* NotAvailable error of Sentinel is absorbed and Landsat is tried, the Missing
\* error of Sentinel is raised before Landsat is queried, and HLSNotAvailable
\* is raised only when both sensors are not available.
C26_NotAvailableOnlyWhenBothNotAvailable ==
    Resolved =>
        /\ SentinelBeforeLandsat
        /\ result.status = "HLSNotAvailable" => BothNotAvailable

\* C26: NDVI and albedo resolve Sentinel, then Landsat; the NotAvailable error
\* of Sentinel is absorbed and Landsat is tried, the Missing error of Sentinel
\* is raised before Landsat is queried, also when the catalog holds a granule
\* of Landsat for the date, and HLSNotAvailable is raised exactly when both
\* sensors are not available or when the granule of the one sensor that was
\* resolved has not the band of the product.
C26_SentinelThenLandsat ==
    Resolved =>
        /\ SentinelBeforeLandsat
        /\ result.status = "HLSNotAvailable" <=>
              (BothNotAvailable \/ OnlyGranuleWithoutBand)

C26_SentinelMissingLandsatHeld ==
    /\ Resolved
    /\ result.sentinel_status = "HLSSentinelMissing"
    /\ result.status = "HLSSentinelMissing"
    /\ result.landsat_status = "none"
    /\ HasRecord(result.tile, result.date_UTC, "L30")

\* every thread has returned from its call
AllReturned == \A t \in Threads : threads[t].pc = "done"

\* one call returned before the other was made
Serialized ==
    \E t, u \in Threads : t # u /\ t \in threads[u].began

\* two calls wrote the cache and both had read it before either wrote
BothReadBeforeWrite ==
    \E t, u \in Threads :
        /\ t # u
        /\ threads[t].written /\ threads[u].written
        /\ u \notin threads[t].read_after
        /\ t \notin threads[u].read_after

\* the cache covers the range of every call that returned a frame
NoRowLost ==
    \A t \in Threads :
        threads[t].status = "ok" =>
            IsListed(_listing, threads[t].tile, threads[t].start, threads[t].end)

\* C22: the merge of line 669 is a read-modify-write of self._listing: when
\* two calls of listing have returned, the cache covers the ranges of both
\* unless both read the cache before either wrote it back, and calls that are
\* serialized never do so and lose no row.
C22_SerializedCallsLoseNoRow ==
    AllReturned =>
        /\ ~ NoRowLost => BothReadBeforeWrite
        /\ Serialized => ~ BothReadBeforeWrite /\ NoRowLost

C22_UnserializedCallsLoseRows ==
    /\ AllReturned
    /\ ~ Serialized
    /\ BothReadBeforeWrite
    /\ \A t \in Threads : threads[t].status = "ok" /\ threads[t].tile = "11SPS"
    /\ \E t \in Threads :
          ~ IsListed(_listing, threads[t].tile, threads[t].start, threads[t].end)
    /\ \E t \in Threads :
          \E i \in 1..Len(threads[t].rows) :
              \A j \in 1..Len(_listing) : _listing[j] # threads[t].rows[i]

=============================================================================
